---- MODULE Spec2Model ----
(***************************************************************************)
(* The async request-state core of grip-core's BaseAsyncTap: one tap, its  *)
(* per-destination DestState records, the shared request cache, the retry  *)
(* and TTL-refresh timers, the fetches in flight and what the tap has last *)
(* published on the state grip, the controller grip and the output grips.  *)
(*                                                                         *)
(* The operations are written as functions on a record m that bundles the  *)
(* mutable state of the tap, so that a handler that calls other methods    *)
(* (kickoff -> handleRequestKeyChange -> kickoff) is one action.           *)
(*                                                                         *)
(* Timestamps that no operation reads back (initiatedAt,                   *)
(* refreshInitiatedAt, failedAt, the error object and the timestamp of a   *)
(* history entry) are always "now" at the transition and are left out of   *)
(* the records; retryAt and retrievedAt are kept.                          *)
(***************************************************************************)
EXTENDS Integers, Sequences, FiniteSets, TLC

\* ---------------------------------------------------------------- bounds
MaxTime == 2          \* the clock runs from 0 to MaxTime
MaxSeq == 2           \* kickoffs per destination (inflightSeq is capped)
MaxListeners == 1     \* output-grip subscribers per destination
MaxAttempt == 2       \* cap on retryAttempt for manual retry()
MaxMetaSubs == 1      \* subscribers of the state and controller grips
MaxSeqShared == 1     \* kickoffs per destination when two are connected
MaxMetaSubsShared == 0  \* state/controller subscribers when two are connected

\* ------------------------------------------- configuration of the tap
\* (options of BaseAsyncTapOptions / RetryConfig, scaled to the clock)
MaxRetries == 2
InitialDelayMs == 1
MaxDelayMs == 3
BackoffMultiplier == 2
CacheTtlMs == 2
RefreshBeforeExpiryMs == 1
HistorySize == 2
DefaultMaxRetries == 3   \* config.maxRetries ?? 3

\* the RetryConfig of the tap, and the same with maxRetries left to its
\* default
retryConfig ==
  [maxRetries |-> MaxRetries, initialDelayMs |-> InitialDelayMs,
   maxDelayMs |-> MaxDelayMs, backoffMultiplier |-> BackoffMultiplier]

defaultRetriesConfig == [retryConfig EXCEPT !.maxRetries = DefaultMaxRetries]

Null == -1            \* "null" for a time
NoKey == "null"       \* requestKeyOf(params) = null
Keys == {"A", "B"}
KeysOrNull == Keys \cup {NoKey}
Dests == {"d1", "d2"}
Grips == {"out", "state", "controller"}
provides == {"out"}
controllerGrip == TRUE
stateGrip == TRUE

VARIABLES
  now,                    \* the injected clock
  attached,               \* FALSE after onDetach
  cfg,                    \* options fixed at construction
  subs,                   \* subscribers of the state and controller grips
  ds,                     \* DestState per destination
  cache,                  \* the shared request cache
  listenerCounts,         \* per request key listener counts
  destinationRequestKeys, \* per destination: the key it listens to
  requests,               \* fetches invoked and not yet completed
  pubState,               \* last snapshot published on stateGrip
  ctrlGrip,               \* last controller published on controllerGrip
  output,                 \* last value published on the output grips
  eff                     \* what the last operation did

vars == <<now, attached, cfg, subs, ds, cache, listenerCounts,
          destinationRequestKeys, requests, pubState, ctrlGrip, output, eff>>

Min(a, b) == IF a < b THEN a ELSE b
Max(a, b) == IF a > b THEN a ELSE b

RECURSIVE Pow(_, _)
Pow(b, e) == IF e = 0 THEN 1 ELSE b * Pow(b, e - 1)

\* ------------------------------------------------------ request states
IdleState == [type |-> "idle", retryAt |-> Null, retrievedAt |-> Null]
LoadingState == [type |-> "loading", retryAt |-> Null, retrievedAt |-> Null]
SuccessState(retrievedAt, retryAt) ==
  [type |-> "success", retryAt |-> retryAt, retrievedAt |-> retrievedAt]
ErrorState(retryAt) == [type |-> "error", retryAt |-> retryAt, retrievedAt |-> Null]
StaleWhileRevalidate(retrievedAt) ==
  [type |-> "stale-while-revalidate", retryAt |-> Null, retrievedAt |-> retrievedAt]
StaleWithError(retrievedAt, retryAt) ==
  [type |-> "stale-with-error", retryAt |-> retryAt, retrievedAt |-> retrievedAt]

hasData(state) ==
  state.type \in {"success", "stale-while-revalidate", "stale-with-error"}

NoTimer == [at |-> Null, key |-> NoKey]
Armed(t) == t.at # Null

NoEntry == [present |-> FALSE, storedAt |-> Null]

InitDestState ==
  [currentState |-> IdleState,
   requestKey |-> NoKey,
   listenerCount |-> 0,
   retryAttempt |-> 0,
   retryTimer |-> NoTimer,
   refreshTimer |-> NoTimer,
   history |-> <<>>,
   controller |-> FALSE,
   abortController |-> 0,
   inflightSeq |-> 0]

DefaultSnapshot ==
  [state |-> IdleState, requestKey |-> NoKey, hasListeners |-> FALSE,
   history |-> <<>>]

\* the reasons addHistoryEntry is given when a request is aborted
AbortReasons == {"concurrent_request_aborted", "request_key_changed_aborted"}

\* the change of variant, if any, between two states
VariantChange(from, to) ==
  IF from.type = to.type THEN {} ELSE {<<from.type, to.type>>}

NoEff(op, d) ==
  [op |-> op,         \* the operation
   d |-> d,           \* its destination
   fetch |-> FALSE,   \* it invoked the fetcher
   out |-> FALSE,     \* it published on the output grips
   pub |-> FALSE,     \* it published on stateGrip
   kick |-> FALSE,    \* it entered kickoff
   disc |-> FALSE,    \* it discarded a completion
   abortRec |-> FALSE,  \* it recorded an abort in the history
   trans |-> {},      \* the changes of state variant it made
   entered |-> <<>>]  \* the states it passed to addHistoryEntry, in order

\* the mutable state of the tap as one record; params is what
\* requestKeyOf(getDestinationParams(dest)) gives while the handler runs
Machine(key) ==
  [now |-> now, cfg |-> cfg, params |-> [d \in Dests |-> key], ds |-> ds,
   cache |-> cache,
   listenerCounts |-> listenerCounts,
   destinationRequestKeys |-> destinationRequestKeys,
   requests |-> requests, pubState |-> pubState, ctrlGrip |-> ctrlGrip,
   output |-> output, eff |-> eff]

Commit(m) ==
  /\ ds' = m.ds
  /\ cache' = m.cache
  /\ listenerCounts' = m.listenerCounts
  /\ destinationRequestKeys' = m.destinationRequestKeys
  /\ requests' = m.requests
  /\ pubState' = m.pubState
  /\ ctrlGrip' = m.ctrlGrip
  /\ output' = m.output
  /\ eff' = m.eff

Begin(op, d, key) == [Machine(key) EXCEPT !.eff = NoEff(op, d)]

\* =====================================================================
\* Publishing
\* =====================================================================

\* publishState deriving hasListeners from the per-request-key count
publishState_perKey(m, d) ==
  LET state == m.ds[d]
      asyncState == [state |-> state.currentState,
                     requestKey |-> state.requestKey,
                     hasListeners |->
                       /\ state.requestKey # NoKey
                       /\ m.listenerCounts[state.requestKey] > 0,
                     history |-> state.history]
  IN IF stateGrip
       THEN [m EXCEPT !.pubState[d] = asyncState, !.eff.pub = TRUE]
       ELSE m

\* publishState: the snapshot is built from the DestState at publish time
publishState(m, d) ==
  LET state == m.ds[d]
      asyncState == [state |-> state.currentState,
                     requestKey |-> state.requestKey,
                     hasListeners |-> state.listenerCount > 0,
                     history |-> state.history]
  IN IF stateGrip
       THEN [m EXCEPT !.pubState[d] = asyncState, !.eff.pub = TRUE]
       ELSE m

\* getRequestState(dest): the synchronous read of the same snapshot
getRequestState(m, d) ==
  [state |-> m.ds[d].currentState,
   requestKey |-> m.ds[d].requestKey,
   hasListeners |-> m.ds[d].listenerCount > 0,
   history |-> m.ds[d].history]

\* publishController: state.controller || createNoOpController()
publishController(m, d) ==
  IF controllerGrip
    THEN [m EXCEPT !.ctrlGrip[d] =
                     IF m.ds[d].controller THEN "live" ELSE "noop"]
    ELSE m

\* =====================================================================
\* History
\* =====================================================================

\* addHistoryEntry without the shift() of the circular buffer
addHistoryEntry_noShift(m, d, newState, reason) ==
  LET state == m.ds[d] IN
  IF m.cfg.historySize = 0 THEN m
  ELSE
    LET entry == [state |-> state.currentState,
                  requestKey |-> state.requestKey,
                  transitionReason |-> reason]
    IN publishState([m EXCEPT !.ds[d].history = Append(state.history, entry),
                              !.ds[d].currentState = newState], d)

\* addHistoryEntry whose entry holds the state being entered
addHistoryEntry_recordsEntered(m, d, newState, reason) ==
  LET state == m.ds[d] IN
  IF m.cfg.historySize = 0 THEN m
  ELSE
    LET entry == [state |-> newState,
                  requestKey |-> state.requestKey,
                  transitionReason |-> reason]
        pushed == Append(state.history, entry)
        kept == IF Len(pushed) > m.cfg.historySize THEN Tail(pushed)
                ELSE pushed
    IN publishState([m EXCEPT !.ds[d].history = kept,
                              !.ds[d].currentState = newState,
                              !.eff.abortRec = @ \/ reason \in AbortReasons,
                              !.eff.trans =
                                 @ \cup VariantChange(state.currentState,
                                                      newState),
                              !.eff.entered = Append(@, newState)],
                    d)

\* addHistoryEntry that records the transition without publishing it
addHistoryEntry_unpublished(m, d, newState, reason) ==
  LET state == m.ds[d] IN
  IF m.cfg.historySize = 0 THEN m
  ELSE
    LET entry == [state |-> state.currentState,
                  requestKey |-> state.requestKey,
                  transitionReason |-> reason]
        pushed == Append(state.history, entry)
        kept == IF Len(pushed) > m.cfg.historySize THEN Tail(pushed)
                ELSE pushed
    IN [m EXCEPT !.ds[d].history = kept,
                 !.ds[d].currentState = newState,
                 !.eff.abortRec = @ \/ reason \in AbortReasons,
                 !.eff.trans = @ \cup VariantChange(state.currentState,
                                                    newState),
                 !.eff.entered = Append(@, newState)]

\* addHistoryEntry(dest, newState, reason): pushes the state being left,
\* evicts the oldest entry over capacity, installs newState and publishes.
\* With historySize = 0 it returns before installing newState.
addHistoryEntry(m, d, newState, reason) ==
  LET state == m.ds[d] IN
  IF m.cfg.historySize = 0 THEN m
  ELSE
    LET entry == [state |-> state.currentState,
                  requestKey |-> state.requestKey,
                  transitionReason |-> reason]
        pushed == Append(state.history, entry)
        kept == IF Len(pushed) > m.cfg.historySize THEN Tail(pushed)
                ELSE pushed
    IN publishState([m EXCEPT !.ds[d].history = kept,
                              !.ds[d].currentState = newState,
                              !.eff.abortRec = @ \/ reason \in AbortReasons,
                              !.eff.trans =
                                 @ \cup VariantChange(state.currentState,
                                                      newState),
                              !.eff.entered = Append(@, newState)],
                    d)

\* =====================================================================
\* Timers and cancellation
\* =====================================================================

\* abortController.abort(): the request of that controller is signalled
abort(m, d) ==
  [m EXCEPT !.requests =
     {IF r.d = d /\ r.seq = m.ds[d].abortController
        THEN [r EXCEPT !.aborted = TRUE] ELSE r : r \in m.requests}]

\* cancelRetry that leaves the TTL refresh timer armed
cancelRetry_retryTimerOnly(m, d) ==
  publishState([m EXCEPT !.ds[d].retryTimer = NoTimer,
                         !.ds[d].currentState.retryAt = Null], d)

\* cancelRetry(dest): cancels the retry and the refresh timer, clears
\* retryAt and publishes
cancelRetry(m, d) ==
  publishState([m EXCEPT !.ds[d].retryTimer = NoTimer,
                         !.ds[d].refreshTimer = NoTimer,
                         !.ds[d].currentState.retryAt = Null], d)

\* calculateRetryTime without the maxDelayMs cap
calculateRetryTime_uncapped(attempt, config, baseTime) ==
  IF attempt >= config.maxRetries THEN Null
  ELSE baseTime + config.initialDelayMs
                    * Pow(config.backoffMultiplier, attempt)

calculateRetryTime(attempt, config, baseTime) ==
  IF attempt >= config.maxRetries THEN Null
  ELSE baseTime + Min(config.initialDelayMs
                        * Pow(config.backoffMultiplier, attempt),
                      config.maxDelayMs)

\* calculateRefreshTime that also returns a refresh time that has passed
calculateRefreshTime_anyTime(retrievedAt, ttlMs, refreshBeforeExpiryMs, dateNow) ==
  IF ttlMs <= 0 THEN Null
  ELSE retrievedAt + ttlMs - refreshBeforeExpiryMs

calculateRefreshTime(retrievedAt, ttlMs, refreshBeforeExpiryMs, dateNow) ==
  IF ttlMs <= 0 THEN Null
  ELSE LET expiryTime == retrievedAt + ttlMs
           refreshTime == expiryTime - refreshBeforeExpiryMs
       IN IF refreshTime > dateNow THEN refreshTime ELSE Null

\* the time of the TTL refresh to arm on entering success, or Null
refreshAtFor(m, d) ==
  IF m.ds[d].listenerCount > 0
    THEN calculateRefreshTime(m.now, CacheTtlMs, m.cfg.refreshBeforeExpiryMs,
                              m.now)
    ELSE Null

\* entering success(retrievedAt = now) and arming the TTL refresh
enterSuccess(m, d, reason) ==
  LET refreshAt == refreshAtFor(m, d)
      m1 == addHistoryEntry(m, d, SuccessState(m.now, refreshAt), reason)
  IN [m1 EXCEPT !.ds[d].refreshTimer =
                  IF refreshAt # Null
                    THEN [at |-> refreshAt, key |-> m.ds[d].requestKey]
                    ELSE NoTimer]

isFresh(m, key) ==
  /\ m.cache[key].present
  /\ m.now < m.cache[key].storedAt + CacheTtlMs

\* =====================================================================
\* Request runner
\* =====================================================================

\* kickoff that starts the new request without aborting the running one
kickoffAbort_noAbort(m, d) ==
  LET m2 == [m EXCEPT !.ds[d].abortController = m.ds[d].inflightSeq + 1]
  IN [cancelRetry(m2, d) EXCEPT !.ds[d].refreshTimer = NoTimer]

\* kickoff, as far as the design shows it: abort the in-flight request,
\* a new AbortController (named by the sequence number of its request),
\* cancel the scheduled retry and refresh
kickoffAbort(m, d) ==
  LET m1 == IF m.ds[d].abortController # 0
              THEN [addHistoryEntry(abort(m, d), d, m.ds[d].currentState,
                                    "concurrent_request_aborted")
                      EXCEPT !.ds[d].abortController = 0]
              ELSE m
      m2 == [m1 EXCEPT !.ds[d].abortController = m1.ds[d].inflightSeq + 1]
  IN [cancelRetry(m2, d) EXCEPT !.ds[d].refreshTimer = NoTimer]

\* the rest of kickoff once the key is known to be unchanged and non-null:
\* bump inflightSeq, consult the cache unless forceRefetch, compute the
\* next state, invoke the fetcher
kickoffRun(m, d, forceRefetch) ==
  LET key == m.ds[d].requestKey
      m3 == [kickoffAbort(m, d) EXCEPT !.ds[d].inflightSeq = @ + 1]
      mySeq == m3.ds[d].inflightSeq
  IN IF ~forceRefetch /\ isFresh(m3, key)
       THEN \* hit, fresh: publish the mapped result, success, no fetch
            enterSuccess([m3 EXCEPT !.output[d] = key, !.eff.out = TRUE,
                                    !.ds[d].abortController = 0],
                         d, "cache_hit")
       ELSE LET cur == m3.ds[d].currentState
                next == IF hasData(cur)
                          THEN StaleWhileRevalidate(cur.retrievedAt)
                          ELSE LoadingState
                m4 == addHistoryEntry(m3, d, next,
                        IF hasData(cur) THEN "refresh_initiated"
                        ELSE "request_initiated")
            IN [m4 EXCEPT !.requests = @ \cup
                             {[d |-> d, seq |-> mySeq, key |-> key,
                               aborted |-> FALSE]},
                          !.eff.fetch = TRUE]

\* handleRequestKeyChange whose idle state carries the retryAt of the
\* state it found
handleRequestKeyChange_idleKeepsRetryAt(m, d, oldKey, newKey) ==
  LET m1 == [m EXCEPT !.ds[d].retryTimer = NoTimer,
                      !.ds[d].refreshTimer = NoTimer]
      m2 == IF m1.ds[d].abortController # 0
              THEN [addHistoryEntry(abort(m1, d), d, m1.ds[d].currentState,
                                    "request_key_changed_aborted")
                      EXCEPT !.ds[d].abortController = 0]
              ELSE m1
      m3 == [m2 EXCEPT !.ds[d].retryAttempt = 0,
                       !.ds[d].requestKey = newKey]
      m4 == addHistoryEntry(m3, d,
              [m3.ds[d].currentState EXCEPT !.retryAt = Null],
              "request_key_changed")
  IN IF newKey # NoKey
       THEN kickoffRun(addHistoryEntry(m4, d, LoadingState,
                                       "request_initiated"),
                       d, FALSE)
       ELSE publishState([m4 EXCEPT !.output[d] = NoKey, !.eff.out = TRUE,
                                    !.ds[d].currentState =
                                       [IdleState EXCEPT !.retryAt =
                                          m.ds[d].currentState.retryAt]], d)

\* handleRequestKeyChange keeping the retry attempts of the old key
handleRequestKeyChange_keepsAttempt(m, d, oldKey, newKey) ==
  LET m1 == [m EXCEPT !.ds[d].retryTimer = NoTimer,
                      !.ds[d].refreshTimer = NoTimer]
      m2 == IF m1.ds[d].abortController # 0
              THEN [addHistoryEntry(abort(m1, d), d, m1.ds[d].currentState,
                                    "request_key_changed_aborted")
                      EXCEPT !.ds[d].abortController = 0]
              ELSE m1
      m3 == [m2 EXCEPT !.ds[d].requestKey = newKey]
      m4 == addHistoryEntry(m3, d,
              [m3.ds[d].currentState EXCEPT !.retryAt = Null],
              "request_key_changed")
  IN IF newKey # NoKey
       THEN kickoffRun(addHistoryEntry(m4, d, LoadingState,
                                       "request_initiated"),
                       d, FALSE)
       ELSE publishState([m4 EXCEPT !.output[d] = NoKey, !.eff.out = TRUE,
                                    !.ds[d].currentState = IdleState], d)

\* handleRequestKeyChange starting the new key with an empty history
handleRequestKeyChange_freshHistory(m, d, oldKey, newKey) ==
  LET m1 == [m EXCEPT !.ds[d].retryTimer = NoTimer,
                      !.ds[d].refreshTimer = NoTimer]
      m2 == IF m1.ds[d].abortController # 0
              THEN [addHistoryEntry(abort(m1, d), d, m1.ds[d].currentState,
                                    "request_key_changed_aborted")
                      EXCEPT !.ds[d].abortController = 0]
              ELSE m1
      m3 == [m2 EXCEPT !.ds[d].retryAttempt = 0,
                       !.ds[d].requestKey = newKey,
                       !.ds[d].history = <<>>]
      m4 == addHistoryEntry(m3, d,
              [m3.ds[d].currentState EXCEPT !.retryAt = Null],
              "request_key_changed")
  IN IF newKey # NoKey
       THEN kickoffRun(addHistoryEntry(m4, d, LoadingState,
                                       "request_initiated"),
                       d, FALSE)
       ELSE publishState([m4 EXCEPT !.output[d] = NoKey, !.eff.out = TRUE,
                                    !.ds[d].currentState = IdleState], d)

\* handleRequestKeyChange that, for a null key, goes idle but leaves the
\* output grips as they were
handleRequestKeyChange_nullKeepsOutput(m, d, oldKey, newKey) ==
  LET m1 == [m EXCEPT !.ds[d].retryTimer = NoTimer,
                      !.ds[d].refreshTimer = NoTimer]
      m2 == IF m1.ds[d].abortController # 0
              THEN [addHistoryEntry(abort(m1, d), d, m1.ds[d].currentState,
                                    "request_key_changed_aborted")
                      EXCEPT !.ds[d].abortController = 0]
              ELSE m1
      m3 == [m2 EXCEPT !.ds[d].retryAttempt = 0,
                       !.ds[d].requestKey = newKey]
      m4 == addHistoryEntry(m3, d,
              [m3.ds[d].currentState EXCEPT !.retryAt = Null],
              "request_key_changed")
  IN IF newKey # NoKey
       THEN kickoffRun(addHistoryEntry(m4, d, LoadingState,
                                       "request_initiated"),
                       d, FALSE)
       ELSE publishState([m4 EXCEPT !.ds[d].currentState = IdleState], d)

\* handleRequestKeyChange(dest, oldKey, newKey)
handleRequestKeyChange(m, d, oldKey, newKey) ==
  LET \* cancel old retry/refresh timers
      m1 == [m EXCEPT !.ds[d].retryTimer = NoTimer,
                      !.ds[d].refreshTimer = NoTimer]
      \* abort any in-flight request for old key
      m2 == IF m1.ds[d].abortController # 0
              THEN [addHistoryEntry(abort(m1, d), d, m1.ds[d].currentState,
                                    "request_key_changed_aborted")
                      EXCEPT !.ds[d].abortController = 0]
              ELSE m1
      \* reset retry attempt counter, update request key
      m3 == [m2 EXCEPT !.ds[d].retryAttempt = 0,
                       !.ds[d].requestKey = newKey]
      m4 == addHistoryEntry(m3, d,
              [m3.ds[d].currentState EXCEPT !.retryAt = Null],
              "request_key_changed")
  IN IF newKey # NoKey
       THEN kickoffRun(addHistoryEntry(m4, d, LoadingState,
                                       "request_initiated"),
                       d, FALSE)
       ELSE publishState([m4 EXCEPT !.output[d] = NoKey, !.eff.out = TRUE,
                                    !.ds[d].currentState = IdleState], d)

\* kickoff(dest, forceRefetch)
kickoff(m, d, forceRefetch) ==
  LET newKey == m.params[d]
      mk == [m EXCEPT !.eff.kick = TRUE]
  IN IF newKey # m.ds[d].requestKey
       THEN handleRequestKeyChange(mk, d, m.ds[d].requestKey, newKey)
     ELSE IF newKey = NoKey
       THEN \* params unresolved: idle, defaults, no fetch
            publishState([mk EXCEPT !.output[d] = NoKey, !.eff.out = TRUE,
                                    !.ds[d].currentState = IdleState], d)
     ELSE kickoffRun(mk, d, forceRefetch)

\* executeRetry without the check that listeners still exist
executeRetry_noListenerCheck(m, d, requestKey) ==
  IF m.params[d] # requestKey
    THEN handleRequestKeyChange(m, d, requestKey, m.params[d])
  ELSE kickoff(m, d, TRUE)

\* executeRetry(dest, requestKey): the callback of the retry timer
executeRetry(m, d, requestKey) ==
  IF m.ds[d].listenerCount = 0
    THEN \* no listeners, cancel retry
         publishState([m EXCEPT !.ds[d].retryTimer = NoTimer,
                                !.ds[d].currentState.retryAt = Null], d)
  ELSE IF m.params[d] # requestKey
    THEN handleRequestKeyChange(m, d, requestKey, m.params[d])
  ELSE kickoff(m, d, TRUE)

\* the callback of the TTL refresh timer: same preconditions, then
\* kickoff(dest, forceRefetch = false)
executeRefresh(m, d, requestKey) ==
  IF m.ds[d].listenerCount = 0
    THEN publishState([m EXCEPT !.ds[d].refreshTimer = NoTimer,
                                !.ds[d].currentState.retryAt = Null], d)
  ELSE IF m.params[d] # requestKey
    THEN handleRequestKeyChange(m, d, requestKey, m.params[d])
  ELSE kickoff(m, d, FALSE)

\* completeFailure that leaves the destination as it is
completeFailure_ignored(m, d, retryable) == m

\* a failure of the current request: error or stale-with-error, and a
\* retry when the error is retryable, listeners exist and budget remains
completeFailure(m, d, retryable) ==
  LET state == m.ds[d]
      cur == state.currentState
      retryAt == IF retryable /\ state.listenerCount > 0
                   THEN calculateRetryTime(state.retryAttempt, m.cfg.retry,
                                           m.now)
                   ELSE Null
      next == IF hasData(cur) THEN StaleWithError(cur.retrievedAt, retryAt)
              ELSE ErrorState(retryAt)
      m1 == addHistoryEntry(m, d, next,
              IF hasData(cur) THEN "refresh_error" ELSE "fetch_error")
  IN IF retryAt # Null
       THEN [m1 EXCEPT !.ds[d].retryTimer =
                          [at |-> retryAt, key |-> state.requestKey],
                       !.ds[d].retryAttempt = @ + 1]
       ELSE m1

\* a success of the request r: cache, output grips, success, retryAttempt
completeSuccess(m, d, r) ==
  LET cur == m.ds[d].currentState
      m1 == [m EXCEPT !.cache[r.key] = [present |-> TRUE, storedAt |-> m.now],
                      !.output[d] = r.key,
                      !.eff.out = TRUE]
      m2 == enterSuccess(m1, d, IF hasData(cur) THEN "refresh_success"
                                ELSE "fetch_success")
  IN [m2 EXCEPT !.ds[d].retryAttempt = 0]

\* a completion routed without the latest-only sequence check
complete_anySeq(m, r, outcome) ==
  LET d == r.d
      gone == [m EXCEPT !.requests = @ \ {r}]
      m1 == IF m.ds[d].abortController = r.seq
              THEN [gone EXCEPT !.ds[d].abortController = 0]
              ELSE gone
  IN CASE outcome = "ok" -> completeSuccess(m1, d, r)
       [] outcome = "map_throws" -> completeFailure(m1, d, TRUE)
       [] outcome = "error" -> completeFailure(m1, d, TRUE)
       [] OTHER -> completeFailure(m1, d, FALSE)

\* a completion that stores the fetched result in the cache before it is
\* mapped
complete_cacheBeforeMap(m, r, outcome) ==
  LET d == r.d
      gone == [m EXCEPT !.requests = @ \ {r}]
  IN IF m.cfg.latestOnly /\ r.seq # m.ds[d].inflightSeq
       THEN [gone EXCEPT !.eff.disc = TRUE]
       ELSE LET m1 == IF m.ds[d].abortController = r.seq
                        THEN [gone EXCEPT !.ds[d].abortController = 0]
                        ELSE gone
            IN CASE outcome = "ok" -> completeSuccess(m1, d, r)
                 [] outcome = "map_throws" ->
                      completeFailure(
                        [m1 EXCEPT !.cache[r.key] =
                                     [present |-> TRUE, storedAt |-> m.now]],
                        d, TRUE)
                 [] outcome = "error" -> completeFailure(m1, d, TRUE)
                 [] OTHER -> completeFailure(m1, d, FALSE)

\* the completion of the fetch r with the captured sequence r.seq
complete(m, r, outcome) ==
  LET d == r.d
      gone == [m EXCEPT !.requests = @ \ {r}]
  IN IF m.cfg.latestOnly /\ r.seq # m.ds[d].inflightSeq
       THEN [gone EXCEPT !.eff.disc = TRUE]  \* stale sequence: discard
       ELSE LET m1 == IF m.ds[d].abortController = r.seq
                        THEN [gone EXCEPT !.ds[d].abortController = 0]
                        ELSE gone
            IN CASE outcome = "ok" -> completeSuccess(m1, d, r)
                 [] outcome = "map_throws" -> completeFailure(m1, d, TRUE)
                 [] outcome = "error" -> completeFailure(m1, d, TRUE)
                 [] OTHER -> completeFailure(m1, d, FALSE)

Outcomes == {"ok", "map_throws", "error", "permanent_error"}

\* =====================================================================
\* Listener tracking
\* =====================================================================

\* isOutputGrip counting every grip the tap provides
isOutputGrip_anyGrip(grip) == grip \in Grips

isOutputGrip(grip) == grip \in provides

incrementListenerCount(m, key) ==
  [m EXCEPT !.listenerCounts[key] = @ + 1]

decrementListenerCount(m, key) ==
  [m EXCEPT !.listenerCounts[key] = Max(0, @ - 1)]

\* onConnect that starts the runner only for the first subscriber a
\* destination ever had
onConnect_kickoffOnce(m, d, grip) ==
  LET key == m.params[d]
      m1 == IF isOutputGrip(grip)
              THEN LET c == [m EXCEPT !.ds[d].listenerCount = @ + 1]
                   IN IF key # NoKey
                        THEN incrementListenerCount(
                               [c EXCEPT !.destinationRequestKeys[d] = key],
                               key)
                        ELSE c
              ELSE m
      m2 == IF controllerGrip /\ ~m1.ds[d].controller
              THEN publishController([m1 EXCEPT !.ds[d].controller = TRUE], d)
              ELSE m1
      m3 == IF isOutputGrip(grip) /\ m.ds[d].inflightSeq = 0
              THEN kickoff(m2, d, FALSE) ELSE m2
  IN publishState(m3, d)

onConnect(m, d, grip) ==
  LET key == m.params[d]
      m1 == IF isOutputGrip(grip)
              THEN LET c == [m EXCEPT !.ds[d].listenerCount = @ + 1]
                   IN IF key # NoKey
                        THEN incrementListenerCount(
                               [c EXCEPT !.destinationRequestKeys[d] = key],
                               key)
                        ELSE c
              ELSE m
      m2 == IF controllerGrip /\ ~m1.ds[d].controller
              THEN publishController([m1 EXCEPT !.ds[d].controller = TRUE], d)
              ELSE m1
      \* existing connection logic: a new output subscriber starts the runner
      m3 == IF isOutputGrip(grip) THEN kickoff(m2, d, FALSE) ELSE m2
  IN publishState(m3, d)

\* variant: the last listener leaving cancels the timers of every
\* destination that uses the same request key
onDisconnect_perKey(m, d, grip) ==
  LET m1 ==
        IF isOutputGrip(grip)
          THEN LET c == [m EXCEPT !.ds[d].listenerCount = Max(0, @ - 1)]
                   key == m.destinationRequestKeys[d]
                   c1 == IF key # NoKey
                           THEN LET c2 == decrementListenerCount(c, key)
                                IN IF c2.ds[d].listenerCount = 0
                                     THEN [c2 EXCEPT !.ds =
                                            [e \in Dests |->
                                              IF c2.destinationRequestKeys[e] = key
                                                THEN [c2.ds[e] EXCEPT
                                                        !.retryTimer = NoTimer,
                                                        !.refreshTimer = NoTimer,
                                                        !.currentState.retryAt = Null]
                                                ELSE c2.ds[e]]]
                                     ELSE c2
                           ELSE c
               IN IF c1.ds[d].listenerCount = 0 /\ controllerGrip
                    THEN publishController(
                           [c1 EXCEPT !.ds[d].controller = FALSE], d)
                    ELSE c1
          ELSE m
  IN publishState(m1, d)

onDisconnect(m, d, grip) ==
  LET m1 ==
        IF isOutputGrip(grip)
          THEN LET c == [m EXCEPT !.ds[d].listenerCount = Max(0, @ - 1)]
                   key == m.destinationRequestKeys[d]
                   c1 == IF key # NoKey
                           THEN LET c2 == decrementListenerCount(c, key)
                                IN IF c2.ds[d].listenerCount = 0
                                     THEN [cancelRetry(c2, d) EXCEPT
                                             !.ds[d].refreshTimer = NoTimer,
                                             !.ds[d].currentState.retryAt = Null]
                                     ELSE c2
                           ELSE c
               IN IF c1.ds[d].listenerCount = 0 /\ controllerGrip
                    THEN publishController(
                           [c1 EXCEPT !.ds[d].controller = FALSE], d)
                    ELSE c1
          ELSE m
  IN publishState(m1, d)

\* =====================================================================
\* Controller
\* =====================================================================

\* createController(dest).retry(forceRefetch)
retry(m, d, forceRefetch) ==
  LET m1 == IF m.ds[d].abortController # 0
              THEN [abort(m, d) EXCEPT !.ds[d].abortController = 0]
              ELSE m
      m2 == cancelRetry(m1, d)
      m3 == [m2 EXCEPT !.ds[d].retryAttempt = @ + 1]
  IN kickoff(m3, d, forceRefetch)

\* createController(dest).refresh(forceRefetch)
refresh(m, d, forceRefetch) == kickoff(m, d, forceRefetch)

\* reset that returns to idle but keeps the history and the timers
reset_stateOnly(m, d) ==
  LET m1 == IF m.ds[d].abortController # 0
              THEN [abort(m, d) EXCEPT !.ds[d].abortController = 0]
              ELSE m
  IN publishState([m1 EXCEPT !.ds[d].retryAttempt = 0,
                             !.ds[d].currentState = IdleState], d)

\* reset(dest): abort, cancel timers, retryAttempt 0, idle, history cleared
reset(m, d) ==
  LET m1 == IF m.ds[d].abortController # 0
              THEN [abort(m, d) EXCEPT !.ds[d].abortController = 0]
              ELSE m
  IN publishState([m1 EXCEPT !.ds[d].retryTimer = NoTimer,
                             !.ds[d].refreshTimer = NoTimer,
                             !.ds[d].retryAttempt = 0,
                             !.ds[d].history = <<>>,
                             !.ds[d].currentState = IdleState], d)

\* onDetach(): every timer is cleared and every in-flight request aborted
RECURSIVE detachAll(_, _)
detachAll(m, rest) ==
  IF rest = {} THEN m
  ELSE LET d == CHOOSE x \in rest : TRUE
           m1 == IF m.ds[d].abortController # 0
                   THEN [abort(m, d) EXCEPT !.ds[d].abortController = 0]
                   ELSE m
       IN detachAll([m1 EXCEPT !.ds[d].retryTimer = NoTimer,
                               !.ds[d].refreshTimer = NoTimer],
                    rest \ {d})

onDetach(m) == detachAll(m, Dests)

\* =====================================================================
\* The state machine
\* =====================================================================

Init ==
  /\ now = 0
  /\ attached = TRUE
  /\ cfg \in {[latestOnly |-> TRUE, historySize |-> HistorySize,
               dests |-> {"d1"}, retry |-> retryConfig,
               refreshBeforeExpiryMs |-> RefreshBeforeExpiryMs],
              [latestOnly |-> FALSE, historySize |-> HistorySize,
               dests |-> {"d1"}, retry |-> retryConfig,
               refreshBeforeExpiryMs |-> RefreshBeforeExpiryMs],
              [latestOnly |-> TRUE, historySize |-> 0, dests |-> {"d1"},
               retry |-> retryConfig,
               refreshBeforeExpiryMs |-> RefreshBeforeExpiryMs]}
  /\ subs = [d \in Dests |-> 0]
  /\ ds = [d \in Dests |-> InitDestState]
  /\ cache = [k \in Keys |-> NoEntry]
  /\ listenerCounts = [k \in Keys |-> 0]
  /\ destinationRequestKeys = [d \in Dests |-> NoKey]
  /\ requests = {}
  /\ pubState = [d \in Dests |-> DefaultSnapshot]
  /\ ctrlGrip = [d \in Dests |-> "noop"]
  /\ output = [d \in Dests |-> NoKey]
  /\ eff = NoEff("init", "d1")

\* the same tap with both destinations connected to it
InitShared ==
  /\ now = 0
  /\ attached = TRUE
  /\ cfg = [latestOnly |-> TRUE, historySize |-> HistorySize, dests |-> Dests,
            retry |-> retryConfig,
            refreshBeforeExpiryMs |-> RefreshBeforeExpiryMs]
  /\ subs = [d \in Dests |-> 0]
  /\ ds = [d \in Dests |-> InitDestState]
  /\ cache = [k \in Keys |-> NoEntry]
  /\ listenerCounts = [k \in Keys |-> 0]
  /\ destinationRequestKeys = [d \in Dests |-> NoKey]
  /\ requests = {}
  /\ pubState = [d \in Dests |-> DefaultSnapshot]
  /\ ctrlGrip = [d \in Dests |-> "noop"]
  /\ output = [d \in Dests |-> NoKey]
  /\ eff = NoEff("init", "d1")

\* the tap under two other settings of its options: maxRetries left to
\* its default, and a refresh lead as long as the TTL
InitOptions ==
  /\ now = 0
  /\ attached = TRUE
  /\ cfg \in {[latestOnly |-> TRUE, historySize |-> HistorySize,
               dests |-> {"d1"}, retry |-> defaultRetriesConfig,
               refreshBeforeExpiryMs |-> RefreshBeforeExpiryMs],
              [latestOnly |-> TRUE, historySize |-> HistorySize,
               dests |-> {"d1"}, retry |-> retryConfig,
               refreshBeforeExpiryMs |-> CacheTtlMs]}
  /\ subs = [d \in Dests |-> 0]
  /\ ds = [d \in Dests |-> InitDestState]
  /\ cache = [k \in Keys |-> NoEntry]
  /\ listenerCounts = [k \in Keys |-> 0]
  /\ destinationRequestKeys = [d \in Dests |-> NoKey]
  /\ requests = {}
  /\ pubState = [d \in Dests |-> DefaultSnapshot]
  /\ ctrlGrip = [d \in Dests |-> "noop"]
  /\ output = [d \in Dests |-> NoKey]
  /\ eff = NoEff("init", "d1")

\* the caps on kickoffs and on state/controller subscribers of this run
SeqBound == IF cfg.dests = Dests THEN MaxSeqShared ELSE MaxSeq

MetaSubsBound == IF cfg.dests = Dests THEN MaxMetaSubsShared ELSE MaxMetaSubs

CanKick(d) == ds[d].inflightSeq < SeqBound

\* the clock; a detached tap no longer reads it
Tick ==
  /\ attached
  /\ now < MaxTime
  /\ now' = now + 1
  /\ eff' = NoEff("tick", "d1")
  /\ UNCHANGED <<attached, cfg, subs, ds, cache, listenerCounts,
                 destinationRequestKeys, requests, pubState, ctrlGrip, output>>

\* In every action k is the request key the destination's params give
\* while the handler runs; params change between handlers at will.

\* the handlers test only isOutputGrip(grip), so the subscribers of the
\* state grip and of the controller grip are counted together
OnConnect(d, grip, k) ==
  /\ attached
  /\ d \in cfg.dests
  /\ IF grip \in provides
       THEN /\ ds[d].listenerCount < MaxListeners
            /\ CanKick(d)
            /\ subs' = subs
       ELSE /\ subs[d] < MetaSubsBound
            /\ subs' = [subs EXCEPT ![d] = @ + 1]
  /\ Commit(onConnect(Begin("onConnect", d, k), d, grip))
  /\ UNCHANGED <<now, attached, cfg>>

OnDisconnect(d, grip) ==
  /\ attached
  /\ d \in cfg.dests
  /\ IF grip \in provides
       THEN /\ ds[d].listenerCount > 0
            /\ subs' = subs
       ELSE /\ subs[d] > 0
            /\ subs' = [subs EXCEPT ![d] = @ - 1]
  /\ Commit(onDisconnect(Begin("onDisconnect", d, NoKey), d, grip))
  /\ UNCHANGED <<now, attached, cfg>>

\* produce({dest}): the runtime nudges a destination that has consumers
Produce(d, k) ==
  /\ attached
  /\ d \in cfg.dests
  /\ ds[d].listenerCount > 0
  /\ CanKick(d)
  /\ Commit(kickoff(Begin("produce", d, k), d, FALSE))
  /\ UNCHANGED <<now, attached, cfg, subs>>

RetryTimerFires(d, k) ==
  /\ attached
  /\ Armed(ds[d].retryTimer)
  /\ now >= ds[d].retryTimer.at
  /\ ds[d].listenerCount = 0 \/ CanKick(d)
  /\ Commit(executeRetry(Begin("retryTimer", d, k), d, ds[d].retryTimer.key))
  /\ UNCHANGED <<now, attached, cfg, subs>>

RefreshTimerFires(d, k) ==
  /\ attached
  /\ Armed(ds[d].refreshTimer)
  /\ now >= ds[d].refreshTimer.at
  /\ ds[d].listenerCount = 0 \/ CanKick(d)
  /\ Commit(executeRefresh(Begin("refreshTimer", d, k), d,
                           ds[d].refreshTimer.key))
  /\ UNCHANGED <<now, attached, cfg, subs>>

Complete(r, outcome) ==
  /\ r \in requests
  /\ Commit(complete(Begin("complete", r.d, NoKey), r, outcome))
  /\ UNCHANGED <<now, attached, cfg, subs>>

\* the consumer calls the controller it reads from controllerGrip
Retry(d, forceRefetch, k) ==
  /\ attached
  /\ ctrlGrip[d] = "live"
  /\ CanKick(d)
  /\ ds[d].retryAttempt < MaxAttempt
  /\ Commit(retry(Begin("retry", d, k), d, forceRefetch))
  /\ UNCHANGED <<now, attached, cfg, subs>>

Refresh(d, forceRefetch, k) ==
  /\ attached
  /\ ctrlGrip[d] = "live"
  /\ CanKick(d)
  /\ Commit(refresh(Begin("refresh", d, k), d, forceRefetch))
  /\ UNCHANGED <<now, attached, cfg, subs>>

Reset(d) ==
  /\ attached
  /\ ctrlGrip[d] = "live"
  /\ Commit(reset(Begin("reset", d, NoKey), d))
  /\ UNCHANGED <<now, attached, cfg, subs>>

CancelRetry(d) ==
  /\ attached
  /\ ctrlGrip[d] = "live"
  /\ Commit(cancelRetry(Begin("cancelRetry", d, NoKey), d))
  /\ UNCHANGED <<now, attached, cfg, subs>>

OnDetach ==
  /\ attached
  /\ attached' = FALSE
  /\ Commit(onDetach(Begin("onDetach", "d1", NoKey)))
  /\ UNCHANGED <<now, cfg, subs>>

Next ==
  \/ Tick
  \/ \E d \in Dests, g \in Grips :
       \E k \in (IF g \in provides THEN KeysOrNull ELSE {NoKey}) :
         OnConnect(d, g, k)
  \/ \E d \in Dests, g \in Grips : OnDisconnect(d, g)
  \/ \E d \in Dests, k \in KeysOrNull : Produce(d, k)
  \/ \E d \in Dests, k \in KeysOrNull : RetryTimerFires(d, k)
  \/ \E d \in Dests, k \in KeysOrNull : RefreshTimerFires(d, k)
  \/ \E r \in requests, o \in Outcomes : Complete(r, o)
  \/ \E d \in Dests, f \in BOOLEAN, k \in KeysOrNull : Retry(d, f, k)
  \/ \E d \in Dests, f \in BOOLEAN, k \in KeysOrNull : Refresh(d, f, k)
  \/ \E d \in Dests : Reset(d)
  \/ \E d \in Dests : CancelRetry(d)
  \/ OnDetach

Spec == Init /\ [][Next]_vars

SpecShared == InitShared /\ [][Next]_vars

SpecOptions == InitOptions /\ [][Next]_vars

\* =====================================================================
\* Properties
\* =====================================================================

\* the fetch r is no longer in flight after the step: it has completed
Completed(r) ==
  ~ \E q \in requests' : q.d = r.d /\ q.seq = r.seq

\* the step invoked the fetcher for destination d
Initiated(d) ==
  \E q \in requests' : q.d = d /\ ~ \E r \in requests : r.d = q.d /\ r.seq = q.seq

\* C1: whenever the cache holds data for a destination's current request
\* key, the destination is not loading, and it is stale-while-revalidate
\* while a request of its is in flight.
C1_NoLoadingWithData ==
  \A d \in Dests :
    (ds[d].requestKey # NoKey /\ cache[ds[d].requestKey].present) =>
      /\ ds[d].currentState.type # "loading"
      /\ (\E r \in requests : r.d = d /\ ~r.aborted) =>
           ds[d].currentState.type = "stale-while-revalidate"

\* C2: a step that initiates a new request on a destination whose state
\* has data leaves the destination in stale-while-revalidate.
C2_DataStateRefreshes ==
  [][\A d \in Dests :
       (hasData(ds[d].currentState) /\ Initiated(d)) =>
         ds'[d].currentState.type = "stale-while-revalidate"]_vars

\* C3: with latestOnly, the completion of a request whose sequence number
\* is older than inflightSeq changes no DestState (state, history), and
\* publishes nothing on the state grip or the output grips.
C3_StaleCompletionDiscarded ==
  [][\A r \in requests :
       (cfg.latestOnly /\ r.seq < ds[r.d].inflightSeq /\ Completed(r)) =>
         /\ ds' = ds
         /\ pubState' = pubState
         /\ output' = output
         /\ cache' = cache
         /\ ~eff'.pub /\ ~eff'.out]_vars

C3_Witness ==
  /\ cfg.latestOnly
  /\ eff.op = "complete"
  /\ eff.disc
  /\ ds[eff.d].currentState.type \in {"loading", "stale-while-revalidate"}

\* C4: the completion of a request that was aborted makes no transition
\* (state and history stay as they are) and publishes nothing, whatever
\* aborted it and whatever latestOnly is.
C4_AbortedCompletionDiscarded ==
  [][\A r \in requests :
       (r.aborted /\ Completed(r)) =>
         /\ ds'[r.d].currentState = ds[r.d].currentState
         /\ ds'[r.d].history = ds[r.d].history
         /\ pubState' = pubState
         /\ output' = output
         /\ ~eff'.pub /\ ~eff'.out]_vars

\* C5: a retry or refresh timer that fires on a destination without
\* listeners starts no kickoff and no fetch; it only clears itself and
\* sets retryAt to null.
C5_NoTimerWorkWithoutListeners ==
  [][\A d \in Dests :
       (ds[d].listenerCount = 0 /\ eff'.d = d
          /\ eff'.op \in {"retryTimer", "refreshTimer"}) =>
         /\ requests' = requests
         /\ ~eff'.kick /\ ~eff'.fetch
         /\ ds'[d] = IF eff'.op = "retryTimer"
                       THEN [ds[d] EXCEPT !.retryTimer = NoTimer,
                                          !.currentState.retryAt = Null]
                       ELSE [ds[d] EXCEPT !.refreshTimer = NoTimer,
                                          !.currentState.retryAt = Null]]_vars

C5_Witness ==
  \E d \in Dests :
    /\ eff.op = "retryTimer" /\ eff.d = d
    /\ ds[d].listenerCount = 0
    /\ ds[d].currentState.type = "error"
    /\ ds[d].currentState.retryAt = Null
    /\ ~Armed(ds[d].retryTimer)

\* C6: a destination without listeners has the no-op controller published
\* on controllerGrip.
C6_NoOpControllerWithoutListeners ==
  \A d \in Dests : ds[d].listenerCount = 0 => ctrlGrip[d] = "noop"

\* C7: the snapshot last published on stateGrip has hasListeners exactly
\* when the destination's listenerCount is positive.
C7_HasListenersIsListenerCount ==
  \A d \in Dests : pubState[d].hasListeners <=> ds[d].listenerCount > 0

C7_Witness ==
  \E d \in Dests :
    /\ eff.op = "onDisconnect" /\ eff.d = d /\ eff.pub
    /\ subs[d] > 0
    /\ ds[d].listenerCount = 0
    /\ ~pubState[d].hasListeners
    /\ ds[d].requestKey # NoKey

\* C8: a connect or disconnect of the state grip or the controller grip
\* changes no listenerCount and no per-request-key count; these change only
\* in a connect or disconnect of an output grip.
C8_OnlyOutputGripsCounted ==
  [][/\ subs' # subs =>
          /\ \A d \in Dests : ds'[d].listenerCount = ds[d].listenerCount
          /\ listenerCounts' = listenerCounts
     /\ ((\E d \in Dests : ds'[d].listenerCount # ds[d].listenerCount)
           \/ listenerCounts' # listenerCounts) =>
          /\ eff'.op \in {"onConnect", "onDisconnect"}
          /\ subs' = subs]_vars

C8_Witness ==
  \E d \in Dests :
    /\ eff.op = "onConnect" /\ eff.d = d /\ ~eff.kick
    /\ subs[d] > 0
    /\ ds[d].listenerCount > 0
    /\ ds[d].requestKey # NoKey
    /\ listenerCounts[ds[d].requestKey] = 1

\* C9: an output-grip disconnect that brings listenerCount to zero cancels
\* both timers and sets retryAt to null, and leaves the variant and the
\* other fields of the state, requestKey, retryAttempt and history alone.
C9_ZeroListenersFreezes ==
  [][\A d \in Dests :
       (eff'.op = "onDisconnect" /\ eff'.d = d
          /\ ds[d].listenerCount > 0 /\ ds'[d].listenerCount = 0) =>
         /\ ds'[d].retryTimer = NoTimer
         /\ ds'[d].refreshTimer = NoTimer
         /\ ds'[d].currentState =
              [ds[d].currentState EXCEPT !.retryAt = Null]
         /\ ds'[d].requestKey = ds[d].requestKey
         /\ ds'[d].retryAttempt = ds[d].retryAttempt
         /\ ds'[d].history = ds[d].history]_vars

\* C10: a history holds at most historySize entries, none at all when
\* historySize is 0.
C10_HistoryBounded ==
  \A d \in Dests : Len(ds[d].history) <= cfg.historySize

C10_Witness ==
  \E d \in Dests :
    /\ cfg.historySize = HistorySize
    /\ Len(ds[d].history) = HistorySize
    /\ ds[d].history[1].state.type \notin {"idle", "loading"}
    /\ eff.op = "complete" /\ eff.d = d /\ eff.pub

\* new is old with entries appended at the tail, less the entries that the
\* capacity cap evicted from the front
GrowsAtTail(old, new, cap) ==
  \E k \in 0..Len(old) :
    /\ Len(new) >= Len(old) - k
    /\ SubSeq(new, 1, Len(old) - k) = SubSeq(old, k + 1, Len(old))
    /\ k > 0 => Len(new) = cap

\* C11: every operation other than reset() leaves a history that is the
\* old history with entries appended at the tail, less only the entries
\* evicted from the front at capacity; only reset() empties a history.
C11_HistoryAppendOnly ==
  [][\A d \in Dests :
       ~(eff'.op = "reset" /\ eff'.d = d) =>
         GrowsAtTail(ds[d].history, ds'[d].history, cfg.historySize)]_vars

C11_Witness ==
  \E d \in Dests :
    /\ eff.op = "produce" /\ eff.d = d
    /\ Len(ds[d].history) = 2
    /\ ds[d].history[1].transitionReason = "fetch_success"
    /\ ds[d].history[1].requestKey # NoKey
    /\ ds[d].history[2].transitionReason = "request_key_changed"
    /\ ds[d].history[2].requestKey = NoKey

\* C12: after a request-key change retryAttempt is 0, no retry timer is
\* armed and no refresh timer is armed for the old key, requestKey is the
\* key the params give, and every request in flight for the destination
\* other than the new key's own has been aborted.
C12_KeyChangeResets ==
  [][\A d \in Dests :
       ds'[d].requestKey # ds[d].requestKey =>
         /\ eff'.op \in {"onConnect", "produce", "retryTimer",
                         "refreshTimer", "retry", "refresh"}
         /\ ds'[d].retryAttempt = 0
         /\ ~Armed(ds'[d].retryTimer)
         /\ Armed(ds'[d].refreshTimer) =>
              ds'[d].refreshTimer.key = ds'[d].requestKey
         /\ \A r \in requests' :
              (r.d = d /\ r.seq # ds'[d].abortController) => r.aborted
         /\ \A r \in requests' :
              (r.d = d /\ ~r.aborted) => r.key = ds'[d].requestKey]_vars

C12_Witness ==
  \E d \in Dests :
    /\ eff.op = "produce" /\ eff.d = d /\ eff.fetch
    /\ ds[d].retryAttempt = 0
    /\ ds[d].requestKey # NoKey
    /\ \E r \in requests :
         r.d = d /\ r.aborted /\ r.key # ds[d].requestKey
    /\ \E r \in requests :
         r.d = d /\ ~r.aborted /\ r.key = ds[d].requestKey
    /\ Len(ds[d].history) > 0

\* C13: right after reset() the snapshot getRequestState reads is idle
\* with retryAt null and an empty history; retryAttempt is 0, both timers
\* are cancelled, every request of the destination still in flight is
\* aborted, and no fetch was started.
C13_ResetReturnsToIdle ==
  [][\A d \in Dests :
       (eff'.op = "reset" /\ eff'.d = d) =>
         LET read == getRequestState([ds |-> ds'], d) IN
         /\ read.state = [type |-> "idle", retryAt |-> Null,
                          retrievedAt |-> Null]
         /\ read.history = <<>>
         /\ pubState'[d] = read
         /\ ds'[d].retryAttempt = 0
         /\ ds'[d].retryTimer = NoTimer /\ ds'[d].refreshTimer = NoTimer
         /\ \A r \in requests' : r.d = d => r.aborted
         /\ ~Initiated(d)
         /\ ~eff'.fetch /\ ~eff'.kick]_vars

C13_Witness ==
  \E d \in Dests :
    /\ eff.op = "reset" /\ eff.d = d /\ eff.pub
    /\ cfg.historySize > 0
    /\ ds[d].requestKey # NoKey
    /\ ds[d].listenerCount > 0
    /\ ds[d].currentState.type = "idle"
    /\ ds[d].history = <<>>
    /\ \E r \in requests : r.d = d /\ r.aborted

FreshSuccess(d) ==
  /\ ds[d].currentState.type = "success"
  /\ ds[d].requestKey # NoKey
  /\ isFresh(Machine(NoKey), ds[d].requestKey)

\* C15: retry(forceRefetch) on a fresh success puts the destination in
\* stale-while-revalidate, on its way to success, for either value of
\* forceRefetch, and the fetcher runs (so that the cache entry is
\* rewritten on its success) exactly when forceRefetch is true.
C15_RetryOnFreshSuccess ==
  [][\A d \in Dests, f \in BOOLEAN :
       (FreshSuccess(d) /\ Retry(d, f, ds[d].requestKey)) =>
         /\ ds'[d].currentState.type = "stale-while-revalidate"
         /\ eff'.fetch <=> f]_vars

\* C16: a destination in idle has retryAt = null.
C16_IdleHasNoRetryAt ==
  \A d \in Dests :
    ds[d].currentState.type = "idle" => ds[d].currentState.retryAt = Null

C16_Witness ==
  \E d \in Dests :
    /\ eff.op = "produce" /\ eff.d = d
    /\ ds[d].currentState.type = "idle"
    /\ Len(ds[d].history) > 0
    /\ LET last == ds[d].history[Len(ds[d].history)] IN
         /\ last.transitionReason = "request_key_changed"
         /\ last.state.type = "error"
         /\ last.state.retryAt # Null

\* C17: a fetch failure leaves the destination in error or
\* stale-with-error; a retry is scheduled (retry timer armed, retryAt set
\* to its future time) exactly when the destination has listeners,
\* retryAttempt < maxRetries and the error is retryable, and otherwise
\* retryAt is null and no retry timer is armed.
C17_RetryScheduledIff ==
  [][\A r \in requests, o \in Outcomes \ {"ok"} :
       (Complete(r, o) /\ ~eff'.disc) =>
         LET d == r.d
             budget == /\ ds[d].listenerCount > 0
                       /\ ds[d].retryAttempt < MaxRetries
                       /\ o # "permanent_error"
         IN /\ ds'[d].currentState.type \in {"error", "stale-with-error"}
            /\ budget =>
                 /\ Armed(ds'[d].retryTimer)
                 /\ ds'[d].currentState.retryAt = ds'[d].retryTimer.at
                 /\ ds'[d].currentState.retryAt > now
            /\ ~budget =>
                 /\ ~Armed(ds'[d].retryTimer)
                 /\ ds'[d].currentState.retryAt = Null]_vars

\* what retry() and refresh() have in common when the request key is
\* unchanged: a kickoff is entered, every earlier request of the
\* destination is aborted, no retry timer stays armed, and a refresh
\* timer is armed only anew by a cache hit
ManualKickoff(d) ==
  /\ eff'.kick
  /\ \A r \in requests' :
       (r.d = d /\ \E q \in requests : q.d = d /\ q.seq = r.seq) => r.aborted
  /\ ~Armed(ds'[d].retryTimer)
  /\ Armed(ds'[d].refreshTimer) =>
       (eff'.out /\ ~eff'.fetch /\ ds'[d].refreshTimer.at > now)

C19_TtlRefreshRevalidates ==
  [][\A d \in Dests :
       /\ (/\ ds[d].currentState.type = "success"
           /\ ds[d].listenerCount > 0
           /\ RefreshTimerFires(d, ds[d].requestKey)) =>
            /\ ds'[d].currentState.type = "stale-while-revalidate"
            /\ eff'.fetch
            /\ Initiated(d)
       /\ \A r \in requests :
            (/\ r.d = d
             /\ ds[d].currentState.type = "stale-while-revalidate"
             /\ Complete(r, "ok") /\ ~eff'.disc) =>
              /\ ds'[d].currentState.type = "success"
              /\ eff'.out /\ output'[d] = r.key]_vars

\* C20: once the tap is detached no retry or refresh timer is armed and
\* every request in flight is aborted, and no later step (a timer, a fetch
\* completion) starts a fetch, changes a destination's state, history or
\* timers, or publishes on the state grip or the output grips.
C20_DetachedTapIsSilent ==
  [][/\ ~attached' =>
          /\ \A d \in Dests : ~Armed(ds'[d].retryTimer)
                              /\ ~Armed(ds'[d].refreshTimer)
          /\ \A r \in requests' : r.aborted
     /\ ~attached =>
          /\ \A d \in Dests :
               /\ ds'[d].currentState = ds[d].currentState
               /\ ds'[d].history = ds[d].history
               /\ ~Initiated(d)
          /\ pubState' = pubState
          /\ output' = output
          /\ ~eff'.fetch /\ ~eff'.pub /\ ~eff'.out]_vars

\* C21: a step that acts on one destination (connect, disconnect, key
\* change, controller call, timer firing, fetch completion) leaves the
\* DestState and the controller of every other destination unchanged, also
\* when both use the same request key; detaching the tap is not such a step
C21_DestinationsIndependent ==
  [][\A d \in Dests :
       (eff'.op # "onDetach" /\ eff'.d # d)
         => /\ ds'[d] = ds[d]
            /\ ctrlGrip'[d] = ctrlGrip[d]]_vars

\* d1's fetch has completed and stored the shared cache entry while d2, on
\* the same key, waits in error with its own retry timer and history
C21_Witness ==
  /\ eff.op = "complete" /\ eff.d = "d1"
  /\ ds["d1"].currentState.type = "success"
  /\ ds["d1"].requestKey = ds["d2"].requestKey
  /\ cache[ds["d1"].requestKey] # NoEntry
  /\ ds["d2"].currentState.type = "error"
  /\ ds["d2"].retryTimer # NoTimer
  /\ Len(ds["d2"].history) > 0

\* C22: at the end of every operation the snapshot last published on the
\* state grip of a destination equals getRequestState(dest): state,
\* requestKey, hasListeners and history
C22_PublishedIsCurrent ==
  \A d \in Dests :
    pubState[d] = getRequestState([ds |-> ds], d)

\* a failed revalidation has just been published: the snapshot shows
\* stale-with-error and a full history
C22_Witness ==
  /\ eff.op = "complete" /\ eff.pub
  /\ pubState["d1"].state.type = "stale-with-error"
  /\ Len(pubState["d1"].history) = HistorySize
  /\ pubState["d1"].hasListeners

\* the requests of d in flight that have not been aborted
LiveRequests(d) == {r \in requests : r.d = d /\ ~r.aborted}

\* the step aborts a request of d that was running
AbortsRequest(d) ==
  \E r \in LiveRequests(d) :
    \E q \in requests' : q.d = d /\ q.seq = r.seq /\ q.aborted

NullKeyStep(d) ==
  \/ \E g \in provides : OnConnect(d, g, NoKey)
  \/ Produce(d, NoKey)
  \/ /\ ds[d].listenerCount > 0
     /\ RetryTimerFires(d, NoKey) \/ RefreshTimerFires(d, NoKey)
  \/ \E f \in BOOLEAN : Retry(d, f, NoKey) \/ Refresh(d, f, NoKey)

C26_ReconnectKicksOff ==
  [][\A d \in Dests, k \in Keys :
       (ds[d].listenerCount = 0 /\ \E g \in provides : OnConnect(d, g, k))
         => /\ eff'.kick
            /\ ds'[d].requestKey = k
            /\ ds'[d].inflightSeq = ds[d].inflightSeq + 1
            /\ \/ /\ eff'.fetch
                  /\ \E r \in LiveRequests(d)' :
                        r.seq = ds'[d].inflightSeq /\ r.key = k
               \/ /\ ~eff'.fetch /\ isFresh(Machine(k), k)
                  /\ eff'.out /\ output'[d] = k]_vars

\* the listeners of a destination in error left and one came back: a
\* second request for the same key is running
C26_Witness ==
  /\ eff.op = "onConnect" /\ eff.kick /\ eff.fetch
  /\ ds["d1"].listenerCount = 1
  /\ ds["d1"].inflightSeq = 2
  /\ \E i \in 1..Len(ds["d1"].history) :
        /\ ds["d1"].history[i].state.type = "error"
        /\ ds["d1"].history[i].requestKey = ds["d1"].requestKey
  /\ \E r \in requests : r.d = "d1" /\ r.seq = 2 /\ ~r.aborted

\* the backoff delay of the retry scheduled at retryAttempt a
BackoffDelay(a) ==
  LET raw == cfg.retry.initialDelayMs * Pow(cfg.retry.backoffMultiplier, a)
  IN IF raw > cfg.retry.maxDelayMs THEN cfg.retry.maxDelayMs ELSE raw

\* the step is a retryable failure of d, with listeners and retry budget
SchedulesRetry(d) ==
  /\ ds[d].listenerCount > 0
  /\ ds[d].retryAttempt < cfg.retry.maxRetries
  /\ \E r \in requests :
        /\ r.d = d
        /\ Complete(r, "error") \/ Complete(r, "map_throws")
  /\ ~eff'.disc

\* C27: a retry is scheduled at now + min(maxDelayMs, initialDelayMs *
\* backoffMultiplier ^ a), a being retryAttempt before the increment made
\* at schedule time; the first delay is initialDelayMs, delays do not
\* decrease from one attempt to the next and never exceed maxDelayMs;
\* retryAttempt grows by one at scheduling and not when the retry executes
C27_BackoffDelay ==
  [][\A d \in Dests :
       /\ SchedulesRetry(d)
            => LET a == ds[d].retryAttempt IN
               /\ ds'[d].retryTimer.at = now + BackoffDelay(a)
               /\ ds'[d].currentState.type \in {"error", "stale-with-error"}
                    => ds'[d].currentState.retryAt = now + BackoffDelay(a)
               /\ ds'[d].retryAttempt = a + 1
               /\ a = 0 => BackoffDelay(a) = cfg.retry.initialDelayMs
               /\ a > 0 => BackoffDelay(a) >= BackoffDelay(a - 1)
               /\ BackoffDelay(a) <= cfg.retry.maxDelayMs
       /\ (/\ ds[d].listenerCount > 0
           /\ RetryTimerFires(d, ds[d].retryTimer.key)
           /\ ds[d].retryTimer.key = ds[d].requestKey)
            => /\ ds[d].requestKey # NoKey => eff'.fetch
               /\ ds'[d].retryAttempt = ds[d].retryAttempt]_vars

\* the third retry has been scheduled: its backoff of 4 is capped at
\* maxDelayMs and retryAttempt has reached 3
C27_Witness ==
  /\ eff.op = "complete"
  /\ ds["d1"].retryAttempt = 3
  /\ InitialDelayMs * Pow(BackoffMultiplier, 2) > MaxDelayMs
  /\ ds["d1"].retryTimer.at = now + MaxDelayMs
  /\ ds["d1"].currentState.retryAt = now + MaxDelayMs

\* the step puts d in success: a fetch of d completed with a result that
\* was not discarded, or a kickoff of d was served from the cache
EntersSuccess(d) ==
  /\ eff'.d = d
  /\ ds'[d].currentState.type = "success"
  /\ \/ eff'.op = "complete" /\ eff'.out
     \/ eff'.kick /\ eff'.out /\ ~eff'.fetch /\ output'[d] # NoKey

\* C28: on entering success with cacheTtlMs > 0 a refresh timer is armed
\* iff the destination has listeners and refreshAt = retrievedAt +
\* cacheTtlMs - refreshBeforeExpiryMs is later than now; when armed the
\* state's retryAt is refreshAt, otherwise retryAt is null and no refresh
\* timer is armed
C28_RefreshArmedIff ==
  [][\A d \in Dests :
       (CacheTtlMs > 0 /\ EntersSuccess(d))
         => LET refreshAt == ds'[d].currentState.retrievedAt + CacheTtlMs
                               - cfg.refreshBeforeExpiryMs
                arm == ds'[d].listenerCount > 0 /\ refreshAt > now
            IN /\ ds'[d].currentState.retrievedAt = now
               /\ arm => /\ ds'[d].refreshTimer.at = refreshAt
                         /\ ds'[d].currentState.retryAt = refreshAt
               /\ ~arm => /\ ds'[d].refreshTimer = NoTimer
                          /\ ds'[d].currentState.retryAt = Null]_vars

\* a listened-to destination entered success under a refresh lead as long
\* as the TTL: refreshAt is not in the future and no refresh is armed
C28_Witness ==
  /\ eff.op = "complete" /\ eff.out
  /\ cfg.refreshBeforeExpiryMs = CacheTtlMs
  /\ ds["d1"].currentState.type = "success"
  /\ ds["d1"].currentState.retrievedAt = now
  /\ ds["d1"].listenerCount > 0
  /\ ds["d1"].refreshTimer = NoTimer
  /\ ds["d1"].currentState.retryAt = Null

\* the step is a kickoff of d with forceRefetch = f whose params resolve to
\* the key k: an output connect or a params change (f false), a controller
\* call, or a timer callback whose key still matches
KickoffStep(d, f, k) ==
  \/ /\ ~f
     /\ (\E g \in provides : OnConnect(d, g, k)) \/ Produce(d, k)
  \/ Retry(d, f, k) \/ Refresh(d, f, k)
  \/ /\ ds[d].listenerCount > 0 /\ k = ds[d].requestKey
     /\ \/ f /\ k = ds[d].retryTimer.key /\ RetryTimerFires(d, k)
        \/ ~f /\ k = ds[d].refreshTimer.key /\ RefreshTimerFires(d, k)

\* C29: a kickoff with forceRefetch = false on a destination whose request
\* key has a cache entry within its TTL invokes no fetcher, publishes the
\* cached result on the output grips and moves the destination to success;
\* a kickoff with forceRefetch = true never does so and always invokes the
\* fetcher
C29_CacheHitUnlessForced ==
  [][\A d \in Dests, k \in Keys :
       k = ds[d].requestKey =>
         /\ (isFresh(Machine(k), k) /\ KickoffStep(d, FALSE, k))
              => /\ ~eff'.fetch
                 /\ eff'.out /\ output'[d] = k
                 /\ ds'[d].currentState.type = "success"
         /\ KickoffStep(d, TRUE, k) => eff'.fetch]_vars

\* the step is a failure of a fetch of d that was not discarded
FailureStep(d) ==
  /\ \E r \in requests :
        /\ r.d = d
        /\ \E o \in Outcomes \ {"ok"} : Complete(r, o)
  /\ ~eff'.disc

\* C30: a failure that is not discarded leaves the destination in
\* stale-with-error, retrievedAt preserved, when it had data, and in error
\* when it had none; never in error with data nor in stale-with-error
\* without
C30_FailureStateByData ==
  [][\A d \in Dests :
       FailureStep(d)
         => IF hasData(ds[d].currentState)
              THEN /\ ds'[d].currentState.type = "stale-with-error"
                   /\ ds'[d].currentState.retrievedAt
                        = ds[d].currentState.retrievedAt
              ELSE ds'[d].currentState.type = "error"]_vars

\* the retry or the refresh timer of d fires, with listeners, while the
\* params of d resolve to k, another key than the one the timer captured
StaleKeyTimerStep(d, k) ==
  /\ ds[d].listenerCount > 0
  /\ \/ k # ds[d].retryTimer.key /\ RetryTimerFires(d, k)
     \/ k # ds[d].refreshTimer.key /\ RefreshTimerFires(d, k)

\* C31: a retry or refresh timer that fires with listeners present after
\* the key has changed starts no fetch for the key it captured; the
\* request-key change procedure runs: retryAttempt is 0, the key is the new
\* one, and the state is loading for a non-null key (success when the new
\* key is served from the cache) or idle for a null key
C31_TimerOnChangedKey ==
  [][\A d \in Dests, k \in KeysOrNull :
       StaleKeyTimerStep(d, k)
         => /\ \A r \in requests' :
                 (r.d = d /\ r.key # k)
                   => \E q \in requests : q.d = d /\ q.seq = r.seq
            /\ ds'[d].retryAttempt = 0
            /\ ds'[d].requestKey = k
            /\ IF k = NoKey
                 THEN ds'[d].currentState = IdleState /\ ~eff'.fetch
                 ELSE \/ ds'[d].currentState.type = "loading" /\ eff'.fetch
                      \/ /\ ds'[d].currentState.type = "success"
                         /\ ~eff'.fetch /\ output'[d] = k]_vars

StateTypes ==
  {"idle", "loading", "success", "error", "stale-while-revalidate",
   "stale-with-error"}

\* the ten allowed transitions
AllowedTransitions ==
  {<<"idle", "loading">>, <<"idle", "stale-while-revalidate">>,
   <<"loading", "success">>, <<"loading", "error">>,
   <<"success", "stale-while-revalidate">>,
   <<"stale-while-revalidate", "success">>,
   <<"stale-while-revalidate", "stale-with-error">>,
   <<"error", "loading">>,
   <<"stale-with-error", "stale-while-revalidate">>}
    \cup {<<t, "idle">> : t \in StateTypes}

\* C32: every change of a destination's state variant, those made inside
\* one handler included, is one of the ten allowed transitions
C32_OnlyAllowedTransitions ==
  [][/\ eff'.trans \subseteq AllowedTransitions
     /\ \A d \in Dests :
          (eff'.trans = {} /\ ds'[d].currentState.type # ds[d].currentState.type)
            => ds'[d].currentState.type = "idle"]_vars

\* the reason tags given to addHistoryEntry
ReasonTags ==
  {"request_initiated", "refresh_initiated", "cache_hit", "fetch_success",
   "refresh_success", "fetch_error", "refresh_error", "request_key_changed",
   "request_key_changed_aborted", "concurrent_request_aborted"}

\* the j-th entry that a handler run appended for d, when the run appended n
\* entries and did not clear the history afterwards
AppendedEntry(d, j, n) == ds'[d].history[Len(ds'[d].history) - n + j]

\* C33: each history entry appended by a handler records the state that was
\* current immediately before its transition (the state before the handler
\* for the first entry, the state entered by the previous transition for the
\* others; its retryAt may have been cleared in place by the cancellation
\* of the timers), never the state entered, a reason tag, and the requestKey of
\* that moment: the old key for the abort recorded before a key change's
\* update of requestKey, the new key for every entry after it
C33_EntryRecordsStateLeft ==
  [][\A d \in Dests :
       LET n == Len(eff'.entered)
           kept == IF n > cfg.historySize THEN cfg.historySize ELSE n
       IN (eff'.d = d /\ n > 0 /\ Len(ds'[d].history) >= kept)
            => \A i \in 1..kept :
                 LET j == n - kept + i
                     e == AppendedEntry(d, j - (n - kept), kept)
                     left == IF j = 1 THEN ds[d].currentState
                             ELSE eff'.entered[j - 1]
                 IN /\ e.state \in {left, [left EXCEPT !.retryAt = Null]}
                    /\ e.state.type = left.type
                    /\ e.transitionReason \in ReasonTags
                    /\ e.requestKey =
                         IF e.transitionReason = "request_key_changed_aborted"
                           THEN ds[d].requestKey
                           ELSE ds'[d].requestKey]_vars

C33_Witness ==
  /\ eff.op = "produce"
  /\ Len(eff.entered) = 2
  /\ ds["d1"].requestKey = NoKey
  /\ Len(ds["d1"].history) = 2
  /\ ds["d1"].history[1].requestKey = "A"
  /\ ds["d1"].history[1].state.type = "loading"
  /\ ds["d1"].history[1].transitionReason = "request_key_changed_aborted"
  /\ ds["d1"].history[2].requestKey = NoKey
  /\ ds["d1"].history[2].transitionReason = "request_key_changed"

\* C34: a completion that publishes data on the output grips belongs to a
\* request whose key is the destination's requestKey at that moment, under
\* either latestOnly setting
C34_PublishedDataIsForCurrentKey ==
  [][\A r \in requests :
       (Complete(r, "ok") /\ eff'.out)
         => /\ r.key = ds'[r.d].requestKey
            /\ output'[r.d] = ds'[r.d].requestKey]_vars

\* C35: retryAt is non-null exactly when one of the retry timer and the
\* refresh timer is armed, and then it is that timer's fire time; the two
\* timers are never armed together
C35_RetryAtMirrorsTimer ==
  \A d \in Dests :
    LET s == ds[d] IN
    /\ ~(s.retryTimer # NoTimer /\ s.refreshTimer # NoTimer)
    /\ s.currentState.retryAt # Null
         <=> (s.retryTimer # NoTimer \/ s.refreshTimer # NoTimer)
    /\ s.retryTimer # NoTimer => s.currentState.retryAt = s.retryTimer.at
    /\ s.refreshTimer # NoTimer => s.currentState.retryAt = s.refreshTimer.at

\* C36: a destination in success has retryAttempt = 0
C36_SuccessHasNoAttempts ==
  \A d \in Dests :
    ds[d].currentState.type = "success" => ds[d].retryAttempt = 0

\* C37: a destination whose requestKey is null is in idle
C37_NullKeyIsIdle ==
  \A d \in Dests :
    ds[d].requestKey = NoKey => ds[d].currentState.type = "idle"

\* a retry policy of one automatic retry
MaxRetriesOnce == 1

singleRetryConfig == [retryConfig EXCEPT !.maxRetries = MaxRetriesOnce]

\* the tap with one automatic retry and TTL refresh disabled
\* (refreshBeforeExpiryMs = cacheTtlMs gives refreshAt = now, never armed)
InitRetries ==
  /\ now = 0
  /\ attached = TRUE
  /\ cfg \in {[latestOnly |-> l, historySize |-> h, dests |-> {"d1"},
               retry |-> singleRetryConfig,
               refreshBeforeExpiryMs |-> CacheTtlMs] :
                l \in BOOLEAN, h \in {HistorySize, 0}}
  /\ subs = [d \in Dests |-> 0]
  /\ ds = [d \in Dests |-> InitDestState]
  /\ cache = [k \in Keys |-> NoEntry]
  /\ listenerCounts = [k \in Keys |-> 0]
  /\ destinationRequestKeys = [d \in Dests |-> NoKey]
  /\ requests = {}
  /\ pubState = [d \in Dests |-> DefaultSnapshot]
  /\ ctrlGrip = [d \in Dests |-> "noop"]
  /\ output = [d \in Dests |-> NoKey]
  /\ eff = NoEff("init", "d1")

\* the environment of the retry loop: listeners connect and stay, the key is
\* fixed once resolved, the controller is never called, every fetch fails
\* with a retryable error
NextRetries ==
  \/ Tick
  \/ \E d \in Dests, g \in Grips, k \in Keys :
       /\ ds[d].requestKey \in {NoKey, k}
       /\ OnConnect(d, g, k)
  \/ \E d \in Dests : RetryTimerFires(d, ds[d].requestKey)
  \/ \E r \in requests : Complete(r, "error")

SpecRetries == InitRetries /\ [][NextRetries]_vars

\* the destination has come to rest after the failure of its last fetch
AtRest(d) ==
  /\ ds[d].currentState.type \in {"error", "stale-with-error"}
  /\ ds[d].currentState.retryAt = Null
  /\ ~Armed(ds[d].retryTimer)
  /\ ~Armed(ds[d].refreshTimer)
  /\ LiveRequests(d) = {}

\* C38: with a fixed key, listeners, no TTL refresh, no controller calls and
\* every fetch failing retryably, at most maxRetries automatic retries are
\* scheduled, and the failure of the last one leaves the destination in
\* error or stale-with-error with retryAt = null, no timer armed and no
\* fetch in flight, so that no further fetch can start
C38_RetriesTerminate ==
  [][\A d \in Dests :
       /\ ds'[d].retryAttempt <= cfg.retry.maxRetries
       /\ ds'[d].inflightSeq <= cfg.retry.maxRetries + 1
       /\ \A r \in requests :
            (/\ r.d = d
             /\ Complete(r, "error")
             /\ ds[d].listenerCount > 0
             /\ ds[d].retryAttempt >= cfg.retry.maxRetries)
              => AtRest(d)' /\ ~eff'.fetch]_vars

\* an aborted fetch whose fetcher honours the signal ends as a cancellation:
\* no transition, no history entry, no publication
Cancelled(r) ==
  /\ r \in requests
  /\ r.aborted
  /\ requests' = requests \ {r}
  /\ eff' = [NoEff("cancelled", r.d) EXCEPT !.disc = TRUE]
  /\ UNCHANGED <<now, attached, cfg, subs, ds, cache, listenerCounts,
                 destinationRequestKeys, pubState, ctrlGrip, output>>

\* the sequence numbers in use at d: those of its requests in flight and
\* inflightSeq
SeqsInUse(d) == {r.seq : r \in {q \in requests : q.d = d}} \cup {ds[d].inflightSeq}

LowestSeq(d) == CHOOSE s \in SeqsInUse(d) : \A t \in SeqsInUse(d) : s <= t

\* Sequence numbers are only compared for equality (seq against inflightSeq),
\* so the numbers no request in flight holds any more are given back: the
\* numbers of d are shifted down until the lowest one in use is 1. This
\* keeps inflightSeq within its cap along a run with any number of kickoffs.
Renumber(d) ==
  LET shift == LowestSeq(d) - 1 IN
  /\ shift > 0
  /\ requests' = {IF r.d = d THEN [r EXCEPT !.seq = @ - shift] ELSE r :
                    r \in requests}
  /\ ds' = [ds EXCEPT ![d].inflightSeq = @ - shift,
                      ![d].abortController = IF @ = 0 THEN 0 ELSE @ - shift]
  /\ eff' = NoEff("renumber", d)
  /\ UNCHANGED <<now, attached, cfg, subs, cache, listenerCounts,
                 destinationRequestKeys, pubState, ctrlGrip, output>>

\* the request of destination d that holds sequence number s ends, by a
\* completion or a cancellation
Ends(d, s) ==
  \E r \in requests : r.d = d /\ r.seq = s /\ requests' = requests \ {r}

\* the keys the params of the liveness runs resolve to
LiveKeys == KeysOrNull

InitLive ==
  /\ now = 0
  /\ attached = TRUE
  /\ cfg \in {[latestOnly |-> l, historySize |-> HistorySize,
               dests |-> {"d1"}, retry |-> retryConfig,
               refreshBeforeExpiryMs |-> RefreshBeforeExpiryMs] :
                l \in BOOLEAN}
  /\ subs = [d \in Dests |-> 0]
  /\ ds = [d \in Dests |-> InitDestState]
  /\ cache = [k \in Keys |-> NoEntry]
  /\ listenerCounts = [k \in Keys |-> 0]
  /\ destinationRequestKeys = [d \in Dests |-> NoKey]
  /\ requests = {}
  /\ pubState = [d \in Dests |-> DefaultSnapshot]
  /\ ctrlGrip = [d \in Dests |-> "noop"]
  /\ output = [d \in Dests |-> NoKey]
  /\ eff = NoEff("init", "d1")

\* aborts, key changes, listener drops, controller calls and the ends of
\* the fetches, at one instant
NextLive ==
  \/ \E d \in Dests, k \in LiveKeys : OnConnect(d, "out", k)
  \/ \E d \in Dests : OnDisconnect(d, "out")
  \/ \E d \in Dests, k \in LiveKeys : Produce(d, k)
  \/ \E r \in requests, o \in Outcomes : Complete(r, o)
  \/ \E r \in requests : Cancelled(r)
  \/ \E d \in Dests, f \in BOOLEAN, k \in LiveKeys : Retry(d, f, k)
  \/ \E d \in Dests, f \in BOOLEAN, k \in LiveKeys : Refresh(d, f, k)
  \/ \E d \in Dests : Reset(d)
  \/ \E d \in Dests : CancelRetry(d)
  \/ OnDetach
  \/ \E d \in Dests : Renumber(d)

\* every invoked fetch eventually completes or is cancelled
SpecLive ==
  /\ InitLive
  /\ [][NextLive]_vars
  /\ \A d \in Dests : \A s \in 1..MaxSeq : WF_requests(Ends(d, s))

InProgress(d) ==
  ds[d].currentState.type \in {"loading", "stale-while-revalidate"}

Settled(d) ==
  ds[d].currentState.type \in {"success", "error", "stale-with-error", "idle"}

\* C39: while the tap is attached, a destination in loading or
\* stale-while-revalidate eventually reaches success, error,
\* stale-with-error or idle, provided every fetch eventually ends
C39_InProgressEnds ==
  \A d \in Dests : InProgress(d) ~> (Settled(d) \/ ~attached)

\* a step that enters kickoff for d
KickoffOn(d) == eff'.kick /\ eff'.d = d

\* C39 (amended): the same, provided the kickoffs of the destination
\* eventually stop
C39_InProgressEndsUnlessSuperseded ==
  \A d \in Dests :
    <>[][~KickoffOn(d)]_vars => (InProgress(d) ~> (Settled(d) \/ ~attached))

C39_Witness ==
  /\ attached
  /\ eff.op = "complete"
  /\ ~eff.disc
  /\ ds["d1"].currentState.type = "error"
  /\ Len(ds["d1"].history) > 0
  /\ ds["d1"].history[Len(ds["d1"].history)].state.type = "loading"
  /\ ds["d1"].inflightSeq = 1
  /\ pubState["d1"].state.type = "error"

\* the listeners of the destinations whose current requestKey is k
ListenersOn(k) ==
  LET on(d) == IF ds[d].requestKey = k THEN ds[d].listenerCount ELSE 0
  IN on("d1") + on("d2")

\* C40: the per-key listener count of every key is the sum of listenerCount
\* over the destinations whose requestKey is that key, and no count is
\* negative
C40_PerKeyCountIsSum ==
  /\ \A d \in Dests : ds[d].listenerCount >= 0
  /\ \A k \in Keys : listenerCounts[k] >= 0
  /\ \A k \in Keys : listenerCounts[k] = ListenersOn(k)
====
